---------------------------- MODULE Spec2Model ----------------------------
(***************************************************************************)
(* A model of generate.py, the generator of a Dutch week calendar.         *)
(*                                                                         *)
(* A datetime.date is modelled by its proleptic Gregorian ordinal (the     *)
(* value of date.toordinal(): day 1 is 0001-01-01, a Monday); its year,    *)
(* month and day are computed from the ordinal the way the datetime        *)
(* library does, and date +- timedelta(days=n) is ordinal +- n.            *)
(***************************************************************************)
EXTENDS Integers, Sequences, FiniteSets, TLC

(***************************************************************************)
(* Bounds of the model.                                                    *)
(***************************************************************************)
\* The years a configuration file (key "year") may name.
MinYear == 1996
MaxYear == 2024
\* The years holiday() is applied to, date by date.
MinHolidayYear == 1900
MaxHolidayYear == 2100

None == "None"

(***************************************************************************)
(* datetime.date                                                           *)
(***************************************************************************)
_DAYS_IN_MONTH == <<31, 28, 31, 30, 31, 30, 31, 31, 30, 31, 30, 31>>

_DAYS_BEFORE_MONTH == <<0, 31, 59, 90, 120, 151, 181, 212, 243, 273, 304, 334>>

_is_leap(year) == year % 4 = 0 /\ (year % 100 # 0 \/ year % 400 = 0)

_days_before_year(year) ==
    LET y == year - 1
    IN  y * 365 + (y \div 4) - (y \div 100) + (y \div 400)

_days_before_month(year, month) ==
    _DAYS_BEFORE_MONTH[month] + (IF month > 2 /\ _is_leap(year) THEN 1 ELSE 0)

\* datetime.date(year, month, day).toordinal()
_ymd2ord(year, month, day) ==
    _days_before_year(year) + _days_before_month(year, month) + day

\* datetime.date.fromordinal(n), as the record of year, month and day
_ord2ymd(ordinal) ==
    LET n0   == ordinal - 1
        n400 == n0 \div 146097
        r400 == n0 % 146097
        n100 == r400 \div 36524
        r100 == r400 % 36524
        n4   == r100 \div 1461
        r4   == r100 % 1461
        n1   == r4 \div 365
        n    == r4 % 365
        year == n400 * 400 + 1 + n100 * 100 + n4 * 4 + n1
        leapyear == n1 = 3 /\ (n4 # 24 \/ n100 = 3)
        month == (n + 50) \div 32
        preceding ==
            _DAYS_BEFORE_MONTH[month] + (IF month > 2 /\ leapyear THEN 1 ELSE 0)
    IN  IF n1 = 4 \/ n100 = 4
        THEN [year |-> year - 1, month |-> 12, day |-> 31]
        ELSE IF preceding > n
             THEN [year  |-> year,
                   month |-> month - 1,
                   day   |-> n - (preceding - (_DAYS_IN_MONTH[month - 1]
                                 + (IF month - 1 = 2 /\ leapyear THEN 1 ELSE 0)))
                             + 1]
             ELSE [year |-> year, month |-> month, day |-> n - preceding + 1]

Year(date) == _ord2ymd(date).year

Month(date) == _ord2ymd(date).month

Day(date) == _ord2ymd(date).day

\* date.weekday(): Monday is 0, Sunday is 6
weekday(date) == (date + 6) % 7

_isoweek1monday(year) ==
    LET firstday     == _ymd2ord(year, 1, 1)
        firstweekday == (firstday + 6) % 7
        week1monday  == firstday - firstweekday
    IN  IF firstweekday > 3 THEN week1monday + 7 ELSE week1monday

\* date.isocalendar()[1]
isoweek(date) ==
    LET year == Year(date)
        week == (date - _isoweek1monday(year)) \div 7
    IN  IF week < 0
        THEN ((date - _isoweek1monday(year - 1)) \div 7) + 1
        ELSE IF week >= 52 /\ date >= _isoweek1monday(year + 1)
             THEN 1
             ELSE week + 1

(***************************************************************************)
(* dateutil.easter.easter(year): Easter Sunday of the Gregorian calendar.  *)
(***************************************************************************)
easter(year) ==
    LET y == year
        g == y % 19
        c == y \div 100
        h == (c - (c \div 4) - ((8 * c + 13) \div 25) + 19 * g + 15) % 30
        i == h - (h \div 28)
                 * (1 - (h \div 28) * (29 \div (h + 1)) * ((21 - g) \div 11))
        j == (y + (y \div 4) + i + 2 - c + (c \div 4)) % 7
        p == i - j
        d == 1 + ((p + 27 + ((p + 6) \div 40)) % 31)
        m == 3 + ((p + 26) \div 30)
    IN  _ymd2ord(y, m, d)

(***************************************************************************)
(* holiday(date), lines 68-150.  The four rule sets are tried in the order *)
(* of the code; each gives the name its first matching rule returns, or    *)
(* "" when none of its rules matches.                                      *)
(***************************************************************************)
\* Simple hardcoded dates, lines 79-110
fixed_date_rule(month, day) ==
    IF month = 1 /\ day = 1 THEN "Nieuwjaar"
    ELSE IF month = 1 /\ day = 6 THEN "Drie Koningen"
    ELSE IF month = 2 /\ day = 14 THEN "Valentijn"
    ELSE IF month = 4 /\ day = 27 THEN "Koningsdag"
    ELSE IF month = 5 /\ day = 4 THEN "Dodenherdenking"
    ELSE IF month = 5 /\ day = 5 THEN "Bevrijdingsdag"
    ELSE IF month = 7 /\ day = 29 THEN "Frikandellendag"
    ELSE IF month = 10 /\ day = 4 THEN "Dierendag"
    ELSE IF month = 12 /\ day = 5 THEN "Sinterklaas"
    ELSE IF month = 12 /\ day = 25 THEN "Eerste Kerstdag"
    ELSE IF month = 12 /\ day = 26 THEN "Tweede Kerstdag"
    ELSE IF month = 12 /\ day = 31 THEN "Oudjaar"
    ELSE ""

\* Nth sunday of month, lines 112-123
nth_weekday_rule(month, day, wd) ==
    IF month = 3 /\ wd = 6 /\ day > 24
    THEN "Zomertijd\nVergeet niet je klok niet een uur vooruit te zetten!"
    ELSE IF month = 5 /\ wd = 6 /\ 7 < day /\ day < 15 THEN "Moederdag"
    ELSE IF month = 6 /\ wd = 6 /\ 14 < day /\ day < 22 THEN "Vaderdag"
    ELSE IF month = 9 /\ wd = 1 /\ 15 < day /\ day < 23 THEN "Prinsjesdag"
    ELSE IF month = 10 /\ wd = 6 /\ day > 24
    THEN "Wintertijd\nVergeet niet je klok een uur terug te zetten!"
    ELSE ""

\* Easter related, lines 125-138
easter_rule(d, easter_date) ==
    IF d = easter_date THEN "Eerste Paasdag"
    ELSE IF d = easter_date - 2 THEN "Goede Vrijdag"
    ELSE IF d = easter_date + 1 THEN "Tweede Paasdag"
    ELSE IF d = easter_date + 39 THEN "Hemelvaart"
    ELSE IF d = easter_date + 49 THEN "Eerste Pinksterdag"
    ELSE IF d = easter_date + 50 THEN "Tweede Pinksterdag"
    ELSE ""

\* The while loop of lines 142-146: i counts down on the days that are no
\* Sunday, and carnaval_date goes back one day every turn.
carnaval_walk[carnaval_date \in Int, i \in Nat] ==
    IF i = 0
    THEN carnaval_date
    ELSE carnaval_walk[carnaval_date - 1,
                       IF weekday(carnaval_date) # 6 THEN i - 1 ELSE i]

\* Lines 140-141: Carnaval is 40 days before easter
carnaval_anchor(easter_date) == carnaval_walk[easter_date, 40]

\* Lines 147-149
carnaval_rule(d, carnaval_date) ==
    IF \E i \in 0..2 : d = carnaval_date - i THEN "Carnaval" ELSE ""

\* The first return statement reached, or the '' of line 150.
first_return(fixed, nth, easter_name, carnaval_name) ==
    IF fixed # "" THEN fixed
    ELSE IF nth # "" THEN nth
    ELSE IF easter_name # "" THEN easter_name
    ELSE carnaval_name

holiday_at(d, ymd, easter_date) ==
    first_return(fixed_date_rule(ymd.month, ymd.day),
                 nth_weekday_rule(ymd.month, ymd.day, weekday(d)),
                 easter_rule(d, easter_date),
                 carnaval_rule(d, carnaval_anchor(easter_date)))

\* Line 126: easter_date is computed once
holiday_ymd(d, ymd) ==
    CHOOSE name \in {holiday_at(d, ymd, easter_date) :
                        easter_date \in {easter(ymd.year)}} : TRUE

\* ymd stands for date.year, date.month and date.day
holiday(d) ==
    CHOOSE name \in {holiday_ymd(d, ymd) : ymd \in {_ord2ymd(d)}} : TRUE

(***************************************************************************)
(* strftime under the locale nl_NL.utf8 that main sets, and str.capitalize *)
(* on the names it gives.                                                  *)
(***************************************************************************)
MonthNames ==
    <<"januari", "februari", "maart", "april", "mei", "juni", "juli",
      "augustus", "september", "oktober", "november", "december">>

ShortMonthNames ==
    <<"jan", "feb", "mrt", "apr", "mei", "jun", "jul", "aug", "sep", "okt",
      "nov", "dec">>

WeekdayNames ==
    <<"maandag", "dinsdag", "woensdag", "donderdag", "vrijdag", "zaterdag",
      "zondag">>

LowerNames == MonthNames \o WeekdayNames

Capitalized ==
    <<"Januari", "Februari", "Maart", "April", "Mei", "Juni", "Juli",
      "Augustus", "September", "Oktober", "November", "December",
      "Maandag", "Dinsdag", "Woensdag", "Donderdag", "Vrijdag", "Zaterdag",
      "Zondag">>

capitalize(s) ==
    IF \E i \in 1..Len(LowerNames) : LowerNames[i] = s
    THEN Capitalized[CHOOSE i \in 1..Len(LowerNames) : LowerNames[i] = s]
    ELSE s

\* '%02d': two digits, zero padded
Pad2(n) == IF n < 10 THEN "0" \o ToString(n) ELSE ToString(n)

\* date.strftime('%m-%d')
strftime_md(ymd) == Pad2(ymd.month) \o "-" \o Pad2(ymd.day)

(***************************************************************************)
(* process_birthdays and process_weddings.  A table is the sequence of the *)
(* items of the dict, in its iteration order; ymd is the date processed.   *)
(***************************************************************************)
same_day(ymd, other) == other.month = ymd.month /\ other.day = ymd.day

RECURSIVE names_of(_, _, _)
names_of(names, age, k) ==
    IF k > Len(names)
    THEN <<>>
    ELSE <<[name |-> names[k], age |-> age]>> \o names_of(names, age, k + 1)

\* The age with the years subtracted the wrong way round.
birthday_age_reversed(ymd, birthdate) == birthdate.year - ymd.year

birthday_age(ymd, birthdate) == ymd.year - birthdate.year

birthdays_on(ymd, birthdate, names) ==
    IF same_day(ymd, birthdate)
    THEN names_of(names, birthday_age(ymd, birthdate), 1)
    ELSE <<>>

RECURSIVE birthdays_from(_, _, _)
birthdays_from(ymd, birthdays, k) ==
    IF k > Len(birthdays)
    THEN <<>>
    ELSE birthdays_on(ymd, _ord2ymd(birthdays[k].date), birthdays[k].names)
         \o birthdays_from(ymd, birthdays, k + 1)

process_birthdays(ymd, birthdays) == birthdays_from(ymd, birthdays, 1)

\* ' & '.join(couple)
RECURSIVE join(_, _)
join(couple, k) ==
    IF k > Len(couple) THEN ""
    ELSE IF k = Len(couple) THEN couple[k]
    ELSE couple[k] \o " & " \o join(couple, k + 1)

RECURSIVE couples_of(_, _, _)
couples_of(couples, age, k) ==
    IF k > Len(couples)
    THEN <<>>
    ELSE <<[names |-> join(couples[k], 1), age |-> age]>>
         \o couples_of(couples, age, k + 1)

wedding_age(ymd, wedding_date) == ymd.year - wedding_date.year

weddings_on(ymd, wedding_date, couples) ==
    IF same_day(ymd, wedding_date)
    THEN couples_of(couples, wedding_age(ymd, wedding_date), 1)
    ELSE <<>>

RECURSIVE weddings_from(_, _, _)
weddings_from(ymd, weddings, k) ==
    IF k > Len(weddings)
    THEN <<>>
    ELSE weddings_on(ymd, _ord2ymd(weddings[k].date), weddings[k].couples)
         \o weddings_from(ymd, weddings, k + 1)

process_weddings(ymd, weddings) == weddings_from(ymd, weddings, 1)

(***************************************************************************)
(* day_to_dict, lines 219-240 (the log line it prints is not modelled).    *)
(***************************************************************************)
birthday_event(birthday) ==
    birthday.name \o " " \o ToString(birthday.age) \o " jaar"

wedding_event(wedding) ==
    wedding.names \o " " \o ToString(wedding.age) \o " jaar getrouwd"

\* Lines 220-222
append_holiday(events, name) ==
    IF name # "" THEN Append(events, name) ELSE events

\* Lines 223-224: a KeyError is suppressed
append_special(events, key, special_dates) ==
    IF key \in DOMAIN special_dates
    THEN Append(events, special_dates[key])
    ELSE events

\* Lines 225-226
RECURSIVE append_birthdays(_, _, _)
append_birthdays(events, items, k) ==
    IF k > Len(items)
    THEN events
    ELSE append_birthdays(Append(events, birthday_event(items[k])), items,
                          k + 1)

\* Lines 227-228
RECURSIVE append_weddings(_, _, _)
append_weddings(events, items, k) ==
    IF k > Len(items)
    THEN events
    ELSE append_weddings(Append(events, wedding_event(items[k])), items,
                         k + 1)

day_events(d, ymd, birthdays, weddings, special_dates) ==
    append_weddings(
        append_birthdays(
            append_special(append_holiday(<<>>, holiday_ymd(d, ymd)),
                           strftime_md(ymd), special_dates),
            process_birthdays(ymd, birthdays), 1),
        process_weddings(ymd, weddings), 1)

\* Lines 229-235
day_record(d, ymd, events) ==
    [day         |-> ymd.day,
     month       |-> MonthNames[ymd.month],
     short_month |-> ShortMonthNames[ymd.month],
     week_day    |-> capitalize(WeekdayNames[weekday(d) + 1]),
     events      |-> events]

day_of(d, ymd, birthdays, weddings, special_dates) ==
    day_record(d, ymd, day_events(d, ymd, birthdays, weddings, special_dates))

\* ymd stands for date.year, date.month and date.day
day_to_dict(d, birthdays, weddings, special_dates) ==
    CHOOSE result \in {day_of(d, ymd, birthdays, weddings, special_dates) :
                          ymd \in {_ord2ymd(d)}} : TRUE

(***************************************************************************)
(* create_week, lines 259-278.                                             *)
(***************************************************************************)
\* Lines 262-271, days[i] being the day record of start_date + i days
week_dict(week_number, days) ==
    [weeknumber |-> week_number,
     mon |-> days[0], tue |-> days[1], wed |-> days[2], thu |-> days[3],
     fri |-> days[4], sat |-> days[5], sun |-> days[6]]

\* The label with Monday's month first.
week_month_monday_first(first_month, last_month) ==
    IF first_month = last_month
    THEN first_month
    ELSE last_month \o " / " \o first_month

\* Lines 274-277
week_month(first_month, last_month) ==
    IF first_month = last_month
    THEN first_month
    ELSE first_month \o " / " \o last_month

\* Lines 272-277: week['month'] = ...
set_month(week) ==
    [weeknumber |-> week.weeknumber,
     mon |-> week.mon, tue |-> week.tue, wed |-> week.wed, thu |-> week.thu,
     fri |-> week.fri, sat |-> week.sat, sun |-> week.sun,
     month |-> week_month(capitalize(week.sun.month),
                          capitalize(week.mon.month))]

create_week(start, birthdays, weddings, special_dates) ==
    CHOOSE result \in
        {set_month(week) :
            week \in {week_dict(isoweek(start),
                                [i \in 0..6 |->
                                    day_to_dict(start + i, birthdays,
                                                weddings, special_dates)])}} :
        TRUE

(***************************************************************************)
(* start_date, lines 64-65.                                                *)
(***************************************************************************)
\* The offset taken from isoweekday(), which counts Monday as 1.
jan_01_isoweekday(jan_01) == jan_01 - (weekday(jan_01) + 1)

jan_01_monday(jan_01) == jan_01 - weekday(jan_01)

\* January 1 itself, whatever its day of the week.
start_date_jan_01(y) == _ymd2ord(y, 1, 1)

start_date(y) == jan_01_monday(_ymd2ord(y, 1, 1))

(***************************************************************************)
(* The inputs: the command line and the parsed data file.                  *)
(***************************************************************************)
\* args.year when -y is not given; "year or ..." takes 0 the same way.
NoYear == 0

\* args.output when -o is not given
NoFile == ""

Years == MinYear..MaxYear

Keys == {"year", "birthdays", "weddings", "special dates"}

\* The example of the module's docstring, lines 14-29.
ExampleTables ==
    [birthdays |->
        <<[date |-> _ymd2ord(1991, 1, 11), names |-> <<"Remco">>],
          [date |-> _ymd2ord(1991, 8, 25), names |-> <<"Linux">>]>>,
     weddings |->
        <<[date |-> _ymd2ord(2006, 6, 6),
           couples |-> <<<<"Husband", "Wife">>>>]>>,
     special |->
        ("03-04" :> "May the Fourth be with you")
        @@ ("03-05" :> "Revenge of the Fifth")]

\* Entries that meet each other, a holiday, a leap day and the years of
\* the model.
BusyTables ==
    [birthdays |->
        <<[date |-> _ymd2ord(MaxYear - 4, 12, 25), names |-> <<"Noor", "Bas">>],
          [date |-> _ymd2ord(1960, 2, 29), names |-> <<"Opa">>],
          [date |-> _ymd2ord(MinYear + 4, 12, 25), names |-> <<"Eva">>]>>,
     weddings |->
        <<[date |-> _ymd2ord(MinYear + 8, 2, 29),
           couples |-> <<<<"Jan", "Piet">>>>],
          [date |-> _ymd2ord(1985, 12, 25),
           couples |-> <<<<"Kees", "Anna">>, <<"Tom", "Els", "Ria">>>>]>>,
     special |->
        ("12-25" :> "Kerstdiner") @@ ("02-29" :> "Schrikkeldag")]

EmptyTables == [birthdays |-> <<>>, weddings |-> <<>>, special |-> <<>>]

TableSets == {EmptyTables, ExampleTables, BusyTables}

\* yaml.load(f): the mapping with the keys ks
Config(ks, y, t) ==
    [k \in ks |->
        CASE k = "year"          -> y
          [] k = "birthdays"     -> t.birthdays
          [] k = "weddings"      -> t.weddings
          [] k = "special dates" -> t.special]

VARIABLES
    pc,             \* where main is
    args,           \* the parsed command line: year and output
    calendar_data,  \* the parsed data file
    year, birthdays, weddings, special_dates,  \* the locals of generate
    gen,            \* the generator create_weeks_for_year returned
    first_date,     \* its local first_date
    starts,         \* the first_date of every create_week call so far
    weeks,          \* the week records it has yielded
    files,          \* the files written: name -> content
    raised,         \* the exception generate raised
    help_printed,   \* whether main printed the usage
    date, hol, hpc  \* a call of holiday: its argument, result and position

vars ==
    <<pc, args, calendar_data, year, birthdays, weddings, special_dates, gen,
      first_date, starts, weeks, files, raised, help_printed, date, hol, hpc>>

mainvars ==
    <<pc, args, calendar_data, year, birthdays, weddings, special_dates, gen,
      first_date, starts, weeks, files, raised, help_printed>>

hvars == <<date, hol, hpc>>

Init ==
    /\ pc = "main"
    /\ args \in [year : {NoYear, MaxYear}, output : {NoFile, "out.odt"}]
    /\ \E ks \in SUBSET Keys, y \in Years, t \in TableSets :
          calendar_data = Config(ks, y, t)
    /\ year = NoYear
    /\ birthdays = <<>>
    /\ weddings = <<>>
    /\ special_dates = <<>>
    /\ gen = "none"
    /\ first_date = 0
    /\ starts = <<>>
    /\ weeks = <<>>
    /\ files = <<>>
    /\ raised = None
    /\ help_printed = FALSE
    /\ date = 0 /\ hol = "" /\ hpc = "idle"

\* main, lines 338-355: argparse.FileType('wb') opens the file of -o.
ParseArgs ==
    /\ pc = "main"
    /\ pc' = "generate"
    /\ files' = IF args.output # NoFile
                THEN (args.output :> "") @@ files
                ELSE files
    /\ UNCHANGED <<args, calendar_data, year, birthdays, weddings,
                   special_dates, gen, first_date, starts, weeks, raised,
                   help_printed, hvars>>

\* The keys the try block of lines 321-325 looks up.
keys_read == IF args.year # NoYear THEN Keys \ {"year"} ELSE Keys

\* generate, lines 319-328, when no key is missing
LoadConfig ==
    /\ pc = "generate"
    /\ keys_read \subseteq DOMAIN calendar_data
    /\ year' = IF args.year # NoYear THEN args.year ELSE calendar_data["year"]
    /\ birthdays' = calendar_data["birthdays"]
    /\ weddings' = calendar_data["weddings"]
    /\ special_dates' = calendar_data["special dates"]
    /\ gen' = "created"
    /\ pc' = "render"
    /\ UNCHANGED <<args, calendar_data, first_date, starts, weeks, files,
                   raised, help_printed, hvars>>

\* generate, lines 326-327: a KeyError becomes BadConfigError
RaiseBadConfig ==
    /\ pc = "generate"
    /\ ~(keys_read \subseteq DOMAIN calendar_data)
    /\ raised' = "BadConfigError"
    /\ pc' = "except"
    /\ UNCHANGED <<args, calendar_data, year, birthdays, weddings,
                   special_dates, gen, first_date, starts, weeks, files,
                   help_printed, hvars>>

\* The first_date the generator tests when it is resumed: line 296 on the
\* first next(), line 299 after a yield.
resumed_date == IF gen = "created" THEN start_date(year) ELSE first_date + 7

\* The loop stopping one week early.
continues_while_next_in_year(d, y) == Year(d + 7) <= y

\* The loop yielding one week more.
continues_after_last(d, y) == Year(d - 7) <= y

\* Line 297
continues(d, y) == Year(d) <= y

\* create_weeks_for_year, one next() of the renderer that yields a week
YieldWeek ==
    /\ pc = "render"
    /\ gen \in {"created", "suspended"}
    /\ continues(resumed_date, year)
    /\ first_date' = resumed_date
    /\ starts' = Append(starts, resumed_date)
    /\ weeks' = Append(weeks, create_week(resumed_date, birthdays, weddings,
                                          special_dates))
    /\ gen' = "suspended"
    /\ UNCHANGED <<pc, args, calendar_data, year, birthdays, weddings,
                   special_dates, files, raised, help_printed, hvars>>

\* create_weeks_for_year, the next() that ends the loop
StopWeeks ==
    /\ pc = "render"
    /\ gen \in {"created", "suspended"}
    /\ ~continues(resumed_date, year)
    /\ first_date' = resumed_date
    /\ gen' = "exhausted"
    /\ UNCHANGED <<pc, args, calendar_data, year, birthdays, weddings,
                   special_dates, starts, weeks, files, raised, help_printed,
                   hvars>>

\* 'calendar-{:d}.odt'.format(year)
default_name == "calendar-" \o ToString(year) \o ".odt"

\* generate, lines 331-334
WriteOutput ==
    /\ pc = "render"
    /\ gen = "exhausted"
    /\ LET out_file == IF args.output # NoFile THEN args.output
                       ELSE default_name
       IN  files' = (out_file :> "rendered") @@ files
    /\ pc' = "exit"
    /\ UNCHANGED <<args, calendar_data, year, birthdays, weddings,
                   special_dates, gen, first_date, starts, weeks, raised,
                   help_printed, hvars>>

\* main, lines 359-360
PrintHelp ==
    /\ pc = "except"
    /\ help_printed' = TRUE
    /\ pc' = "exit"
    /\ UNCHANGED <<args, calendar_data, year, birthdays, weddings,
                   special_dates, gen, first_date, starts, weeks, files,
                   raised, hvars>>

Next ==
    \/ ParseArgs
    \/ LoadConfig
    \/ RaiseBadConfig
    \/ YieldWeek
    \/ StopWeeks
    \/ WriteOutput
    \/ PrintHelp

Spec == Init /\ [][Next]_vars

\* main runs on one thread to its end: a step that can be taken is taken.
FairSpec == Spec /\ WF_vars(Next)

(***************************************************************************)
(* holiday applied to every date of the years MinHolidayYear to            *)
(* MaxHolidayYear.                                                         *)
(***************************************************************************)
HolidayDates ==
    _ymd2ord(MinHolidayYear, 1, 1) .. _ymd2ord(MaxHolidayYear, 12, 31)

HolidayInit ==
    /\ date \in HolidayDates
    /\ hol = ""
    /\ hpc = "call"
    /\ pc = "idle"
    /\ args = [year |-> NoYear, output |-> NoFile]
    /\ calendar_data = <<>>
    /\ year = NoYear
    /\ birthdays = <<>>
    /\ weddings = <<>>
    /\ special_dates = <<>>
    /\ gen = "none"
    /\ first_date = 0
    /\ starts = <<>>
    /\ weeks = <<>>
    /\ files = <<>>
    /\ raised = None
    /\ help_printed = FALSE

CallHoliday ==
    /\ hpc = "call"
    /\ hol' = holiday(date)
    /\ hpc' = "return"
    /\ UNCHANGED <<date, mainvars>>

HolidayNext == CallHoliday

HolidaySpec == HolidayInit /\ [][HolidayNext]_vars


(***************************************************************************)
(* The vocabulary of the properties.                                       *)
(***************************************************************************)
DayKeys == <<"mon", "tue", "wed", "thu", "fri", "sat", "sun">>

Jan1(y) == _ymd2ord(y, 1, 1)

Dec31(y) == _ymd2ord(y, 12, 31)

\* The day record r shows the date d: d is the day r.day of the month named
\* r.month in d's year, and r.week_day names d's day of the week.
Shows(r, d) ==
    /\ \E m \in 1..12 :
          /\ r.month = MonthNames[m]
          /\ r.short_month = ShortMonthNames[m]
          /\ r.day \in 1..31
          /\ _ymd2ord(Year(d), m, r.day) = d
    /\ r.week_day = Capitalized[12 + ((d - 1) % 7) + 1]

Produced == gen = "exhausted"

LastStart == starts[Len(starts)]

LastWeek == weeks[Len(weeks)]

\* C1: when the generator is exhausted, every date from January 1 to
\* December 31 of the year is shown by exactly one day record, under the key
\* of its day of the week, and the seven records of each week show the seven
\* consecutive dates that start at the week's Monday.
C1_WeeksCoverYear ==
    Produced =>
        LET shown == {starts[i] + k : i \in 1..Len(weeks), k \in 0..6}
        IN  /\ Len(starts) = Len(weeks)
            /\ Cardinality(shown) = 7 * Len(weeks)
            /\ Jan1(year)..Dec31(year) \subseteq shown
            /\ \A i \in 1..Len(weeks), k \in 0..6 :
                  /\ Shows(weeks[i][DayKeys[k + 1]], starts[i] + k)
                  /\ (starts[i] + k - 1) % 7 = k

C1_Witness ==
    /\ Produced
    /\ Len(weeks) = 54
    /\ starts[1] < Jan1(year)
    /\ LastStart = Dec31(year)

\* C2: the start dates of the weeks yielded are Mondays, each exactly 7 days
\* after the one before, and the first is January 1 minus its weekday, 0 to
\* 6 days before January 1.
C2_MondaysEverySevenDays ==
    /\ \A i \in 1..Len(starts) :
          /\ (starts[i] - 1) % 7 = 0
          /\ i > 1 => starts[i] = starts[i - 1] + 7
    /\ Len(starts) > 0 =>
          /\ starts[1] = Jan1(year) - ((Jan1(year) - 1) % 7)
          /\ Jan1(year) - starts[1] \in 0..6

C2_Witness ==
    /\ Len(starts) > 2
    /\ Jan1(year) - starts[1] = 6

\* C3, as claimed: the last week produced is the week whose Monday is the
\* first Monday whose year is greater than the target year.
C3_LastWeekStartsNextYear ==
    Produced =>
        /\ Len(starts) > 0
        /\ Year(LastStart) > year
        /\ Year(LastStart - 7) <= year

\* C3, amended: the generator terminates, and it produces weeks as long as
\* the starting Monday's year is at most the target year: the last week
\* produced starts on the last Monday of the target year, and no week
\* starts in a later year.
C3_StopsBeforeNextYear ==
    /\ (gen = "created") ~> Produced
    /\ [](Produced =>
            /\ Len(starts) > 0
            /\ Year(LastStart) = year
            /\ Year(LastStart + 7) > year
            /\ \A i \in 1..Len(starts) : Year(starts[i]) <= year)

C3_Witness ==
    /\ Produced
    /\ Year(LastStart) = year
    /\ Year(LastStart + 6) > year

\* The number of weeks the loop of lines 296-299 yields for the year y.
RECURSIVE weeks_from(_, _)
weeks_from(d, y) == IF continues(d, y) THEN 1 + weeks_from(d + 7, y) ELSE 0

week_count(y) == weeks_from(start_date(y), y)

SameJan1Weekday(y1, y2) == (Jan1(y1) - 1) % 7 = (Jan1(y2) - 1) % 7

IsLeapYear(y) == Dec31(y) - Jan1(y) = 365

\* C4, as claimed: between 52 and 54 weeks are produced, and the count is
\* determined by the day of the week of January 1.
C4_CountByJan1Weekday ==
    Produced =>
        /\ Len(weeks) \in 52..54
        /\ \A y \in Years :
              SameJan1Weekday(y, year) => week_count(y) = Len(weeks)

\* C4, amended: 53 or 54 weeks are produced: 54 when January 1 is a Sunday
\* and the year is a leap year, and 53 otherwise. The day of the week of
\* January 1 alone does not determine the count.
C4_CountByJan1WeekdayAndLeap ==
    Produced =>
        Len(weeks) = IF (Jan1(year) - 1) % 7 = 6 /\ IsLeapYear(year)
                     THEN 54 ELSE 53

C4_Witness ==
    /\ Produced
    /\ Len(weeks) = 53
    /\ (Jan1(year) - 1) % 7 = 6
    /\ \E y \in Years : SameJan1Weekday(y, year) /\ week_count(y) = 54

(***************************************************************************)
(* holiday: the rule sets that match the date of the call.                 *)
(***************************************************************************)
FixedName == fixed_date_rule(Month(date), Day(date))

NthName == nth_weekday_rule(Month(date), Day(date), weekday(date))

EasterSunday == easter(Year(date))

EasterName == easter_rule(date, EasterSunday)

CarnavalName == carnaval_rule(date, carnaval_anchor(EasterSunday))

MatchingSets ==
    {n \in {<<1, FixedName>>, <<2, NthName>>, <<3, EasterName>>,
            <<4, CarnavalName>>} : n[2] # ""}

Returned == hpc = "return"

\* C5, as claimed: at most one of the four rule sets matches a date.
C5_RuleSetsDisjoint == Returned => Cardinality(MatchingSets) <= 1

\* What holiday does instead: the fixed-date and Nth-weekday rule sets never
\* match the same date, nor do the Nth-weekday and Carnival rule sets, nor
\* the Easter-relative and Carnival rule sets; the other pairs do overlap,
\* and holiday returns the name of the matching rule set that comes first in
\* the order fixed-date, Nth-weekday, Easter-relative, Carnival.
FirstMatchWins ==
    Returned =>
        /\ ~(FixedName # "" /\ NthName # "")
        /\ ~(NthName # "" /\ CarnavalName # "")
        /\ ~(EasterName # "" /\ CarnavalName # "")
        /\ Cardinality(MatchingSets) <= 2
        /\ hol = IF MatchingSets = {} THEN ""
                 ELSE (CHOOSE n \in MatchingSets :
                          \A other \in MatchingSets : n[1] <= other[1])[2]

C5_Witness ==
    /\ Returned
    /\ Cardinality(MatchingSets) = 2
    /\ FixedName = "Bevrijdingsdag"
    /\ EasterName = "Hemelvaart"

\* C6: holiday returns the Easter-relative name on Easter Sunday and on the
\* days 2 before and 1, 39, 49 and 50 after it.
C6_EasterNames ==
    Returned =>
        /\ date = EasterSunday => hol = "Eerste Paasdag"
        /\ date = EasterSunday - 2 => hol = "Goede Vrijdag"
        /\ date = EasterSunday + 1 => hol = "Tweede Paasdag"
        /\ date = EasterSunday + 39 => hol = "Hemelvaart"
        /\ date = EasterSunday + 49 => hol = "Eerste Pinksterdag"
        /\ date = EasterSunday + 50 => hol = "Tweede Pinksterdag"

C6_Witness ==
    /\ Returned
    /\ date = EasterSunday
    /\ NthName # ""
    /\ hol = NthName

\* C7: the Carnival anchor is the Tuesday 47 days before Easter Sunday, and
\* holiday returns Carnaval on the anchor and on the two days before it,
\* and on neither the day before those three nor the day after them.
C7_CarnavalDays ==
    Returned =>
        /\ carnaval_anchor(EasterSunday) = EasterSunday - 47
        /\ (EasterSunday - 47 - 1) % 7 = 1
        /\ date \in (EasterSunday - 49)..(EasterSunday - 47)
              => hol = "Carnaval"
        /\ date \in {EasterSunday - 50, EasterSunday - 46}
              => hol # "Carnaval"

C7_Witness ==
    /\ Returned
    /\ date = EasterSunday - 49
    /\ CarnavalName = "Carnaval"
    /\ hol = "Valentijn"

(***************************************************************************)
(* day_to_dict: the events of a date, stated from the tables.              *)
(***************************************************************************)
TwoDigits(n) == ToString(n \div 10) \o ToString(n % 10)

RECURSIVE Flatten(_)
Flatten(seqs) ==
    IF seqs = <<>> THEN <<>> ELSE Head(seqs) \o Flatten(Tail(seqs))

RECURSIVE JoinAmpersand(_)
JoinAmpersand(names) ==
    IF Len(names) = 0 THEN ""
    ELSE IF Len(names) = 1 THEN names[1]
    ELSE JoinAmpersand(SubSeq(names, 1, Len(names) - 1))
         \o " & " \o names[Len(names)]

SameMonthDay(d, e) == Month(d) = Month(e) /\ Day(d) = Day(e)

HolidayEvents(d) == IF holiday(d) = "" THEN <<>> ELSE <<holiday(d)>>

SpecialEvents(d) ==
    LET key == TwoDigits(Month(d)) \o "-" \o TwoDigits(Day(d))
    IN  IF key \in DOMAIN special_dates THEN <<special_dates[key]>> ELSE <<>>

BirthdayEvents(d) ==
    Flatten([e \in 1..Len(birthdays) |->
        IF SameMonthDay(d, birthdays[e].date)
        THEN [j \in 1..Len(birthdays[e].names) |->
                 birthdays[e].names[j] \o " "
                 \o ToString(Year(d) - Year(birthdays[e].date)) \o " jaar"]
        ELSE <<>>])

WeddingEvents(d) ==
    Flatten([e \in 1..Len(weddings) |->
        IF SameMonthDay(d, weddings[e].date)
        THEN [j \in 1..Len(weddings[e].couples) |->
                 JoinAmpersand(weddings[e].couples[j]) \o " "
                 \o ToString(Year(d) - Year(weddings[e].date))
                 \o " jaar getrouwd"]
        ELSE <<>>])

\* C8: the events of a day record are the holiday name if there is one, then
\* the special date of the day's MM-DD key if there is one, then an event
\* "<name> <age> jaar" for every name of every birthday on that month and
\* day, in table order, then an event "<names joined by &> <age> jaar
\* getrouwd" for every couple of every wedding on that month and day.
C8_EventsInOrder ==
    Len(weeks) > 0 =>
        \A k \in 0..6 :
            LastWeek[DayKeys[k + 1]].events =
                HolidayEvents(LastStart + k) \o SpecialEvents(LastStart + k)
                \o BirthdayEvents(LastStart + k)
                \o WeddingEvents(LastStart + k)

C8_Witness ==
    /\ Len(weeks) > 0
    /\ \E k \in 0..6 :
          LET events == LastWeek[DayKeys[k + 1]].events
          IN  /\ Len(events) = 7
              /\ events[1] = "Eerste Kerstdag"
              /\ events[2] = "Kerstdiner"
              /\ events[3] = "Noor 0 jaar"
              /\ events[4] = "Bas 0 jaar"
              /\ events[7] = "Tom & Els & Ria " \o ToString(year - 1985)
                             \o " jaar getrouwd"

(***************************************************************************)
(* create_week: the week number and the month label.                       *)
(***************************************************************************)
\* ISO 8601: a week belongs to the year of its Thursday, and is numbered by
\* the Thursdays of that year.
IsoWeekOfMonday(monday) ==
    ((monday + 3 - Jan1(Year(monday + 3))) \div 7) + 1

\* C9: the week number of a week record is the ISO week number of its
\* Monday, from 1 to 53, and its month label is the month name when Monday
\* and Sunday are in the same month, and else Sunday's month name, " / "
\* and Monday's month name.
C9_WeekNumberAndMonthLabel ==
    Len(weeks) > 0 =>
        /\ LastWeek.weeknumber = IsoWeekOfMonday(LastStart)
        /\ LastWeek.weeknumber \in 1..53
        /\ LastWeek.month =
              IF Month(LastStart) = Month(LastStart + 6)
              THEN Capitalized[Month(LastStart)]
              ELSE Capitalized[Month(LastStart + 6)] \o " / "
                   \o Capitalized[Month(LastStart)]

C9_Witness ==
    /\ Len(weeks) > 0
    /\ LastWeek.weeknumber = 53
    /\ LastWeek.month = "Januari / December"

(***************************************************************************)
(* generate and main: the configuration error.                             *)
(***************************************************************************)
Entered == pc \in {"render", "except", "exit"}

AnyKeyMissing == ~(Keys \subseteq DOMAIN calendar_data)

\* C10, as claimed: when any of the four keys is absent, generate raises
\* BadConfigError before a week is built, main shows the usage and no
\* output file is produced; when all four are present no error is raised.
C10_AnyMissingKeyIsAnError ==
    /\ Entered /\ AnyKeyMissing =>
          /\ raised = "BadConfigError"
          /\ gen = "none" /\ weeks = <<>>
          /\ pc = "exit" => help_printed /\ DOMAIN files = {}
    /\ ~AnyKeyMissing => raised = None

NeededKeyMissing ==
    \/ "birthdays" \notin DOMAIN calendar_data
    \/ "weddings" \notin DOMAIN calendar_data
    \/ "special dates" \notin DOMAIN calendar_data
    \/ "year" \notin DOMAIN calendar_data /\ args.year = NoYear

\* What generate and main do instead: when birthdays, weddings or special
\* dates is absent, or year is absent and the command line gives no year,
\* generate raises BadConfigError before a week is built and main shows the
\* usage; the default output file is not created, but a file named by -o,
\* which parsing the arguments has opened, exists and is empty; when none
\* of these is missing no error is raised.
NeededMissingKeyIsAnError ==
    /\ Entered /\ NeededKeyMissing =>
          /\ raised = "BadConfigError"
          /\ gen = "none" /\ weeks = <<>>
          /\ pc = "exit" =>
                /\ help_printed
                /\ DOMAIN files = {args.output} \ {NoFile}
                /\ \A f \in DOMAIN files : files[f] = ""
    /\ ~NeededKeyMissing => raised = None /\ ~help_printed

C10_Witness ==
    /\ pc = "exit"
    /\ raised = "BadConfigError"
    /\ help_printed
    /\ "birthdays" \notin DOMAIN calendar_data
    /\ args.output # NoFile
    /\ DOMAIN files = {args.output}

=============================================================================
